---------------------------- MODULE Spec2Model ----------------------------
(***************************************************************************)
(* Model of the two negotiation programs of the repository:                *)
(*   - the buyer agent and its interactive controller (chat_with_llama),   *)
(*   - the seller agent and its controller (chat_with_seller_llama).       *)
(*                                                                         *)
(* Texts are sequences of pieces.  A piece is one character ("0".."9",     *)
(* ",", ".", " ", a letter), the rupee sign (written "INR") or, in the     *)
(* fixed parts of the agents' own messages, a run of characters holding    *)
(* no digit, comma, full stop or rupee sign.                               *)
(*                                                                         *)
(* Python's int(n * c) for a float constant c is modelled by integer       *)
(* arithmetic; for every n of 0..3000 the quotient used here equals the    *)
(* IEEE-754 result, except for c = 0.7 and c = 1.15 where the double       *)
(* product falls just below the integer for the arguments listed in        *)
(* RoundsDown07 and RoundsDown115.                                         *)
(***************************************************************************)
EXTENDS Integers, Sequences, FiniteSets, TLC

VARIABLES
    prog,         \* which program runs: "buyer" (chat_with_llama) or "seller"
    context,      \* the NegotiationContext of the session
    pc,           \* where the controller stands
    user_input,   \* the last line read from the counterpart, stripped
    call,         \* the arguments of the last decision-engine call, or NoCall
    ret,          \* what that call returned, or NoRet
    invocations,  \* how many times the decision engine has been called
    answers,      \* how many times the advisory subprocess has answered
    final_price   \* the price handed to the end-of-session report, or NoPrice

vars == <<prog, context, pc, user_input, call, ret, invocations, answers, final_price>>

-----------------------------------------------------------------------------
(* Program constants *)

MAX_ROUNDS == 10

\* the advisory subprocess answers at most this often in one explored session;
\* its other runs fail
MaxAnswers == 1

ONGOING  == "ongoing"
ACCEPTED == "accepted"
REJECTED == "rejected"

NoCall  == [none |-> TRUE]
NotRun  == [ok |-> FALSE, stdout |-> <<"not run">>]
NoRet   == [none |-> TRUE]
NoPrice == 0 - 1

-----------------------------------------------------------------------------
(* Arithmetic helpers *)

Max(a, b) == IF a >= b THEN a ELSE b
Min(a, b) == IF a <= b THEN a ELSE b

\* int(n * num/den) for n >= 0 where the double product is exact enough
IntMul(n, num, den) == (n * num) \div den

\* arguments n <= 1000 at which the double n * 0.7 is below the integer n*7/10
RoundsDown07 ==
    {90, 170, 180, 330, 340, 350, 360, 650, 660, 670, 680, 690, 700, 710, 720, 730}

\* arguments n <= 1000 at which the double n * 1.15 is below the integer n*115/100
RoundsDown115 ==
    {100, 180, 200, 220, 340, 360, 380, 400, 420, 440, 660, 680, 700, 720, 740,
     760, 780, 800, 820, 840, 860, 880}

IntMul07(n)  == IntMul(n, 7, 10) - (IF n \in RoundsDown07 THEN 1 ELSE 0)
IntMul115(n) == IntMul(n, 115, 100) - (IF n \in RoundsDown115 THEN 1 ELSE 0)

-----------------------------------------------------------------------------
(* Texts *)

DigitChars == <<"0", "1", "2", "3", "4", "5", "6", "7", "8", "9">>
DigitSet   == {DigitChars[i] : i \in 1..10}
IsDigit(c) == c \in DigitSet
DigitVal(c) == CHOOSE d \in 0..9 : DigitChars[d + 1] = c

\* str(n) for a natural number n
RECURSIVE Digits(_)
Digits(n) == IF n < 10 THEN <<DigitChars[n + 1]>>
             ELSE Digits(n \div 10) \o <<DigitChars[(n % 10) + 1]>>

\* int(ds) for a sequence of digit characters: the value of its first k digits
RECURSIVE ParsePrefix(_, _)
ParsePrefix(ds, k) == IF k = 0 THEN 0
                      ELSE 10 * ParsePrefix(ds, k - 1) + DigitVal(ds[k])
ParseNat(ds) == ParsePrefix(ds, Len(ds))

\* Decimal numerals are sequences of digit characters, most significant
\* first; they carry the integers beyond the range of the model's arithmetic.

\* a numeral without its leading zeros ("0" for zero)
Canonical(ds) ==
    LET nz == {i \in 1..Len(ds) : ds[i] # "0"}
    IN  IF nz = {} THEN <<"0">>
        ELSE SubSeq(ds, CHOOSE i \in nz : \A j \in nz : i <= j, Len(ds))

\* a >= b for canonical numerals
NumeralGE(a, b) ==
    \/ Len(a) > Len(b)
    \/ /\ Len(a) = Len(b)
       /\ LET diff == {i \in 1..Len(a) : a[i] # b[i]}
          IN  \/ diff = {}
              \/ LET i == CHOOSE i \in diff : \A j \in diff : i <= j
                 IN  DigitVal(a[i]) > DigitVal(b[i])

IsOdd(ds) == DigitVal(ds[Len(ds)]) % 2 = 1

\* n // 2: the remainder carried into a digit is the parity of the digit before
Halve(ds) ==
    Canonical([i \in 1..Len(ds) |->
        DigitChars[(((IF i > 1 /\ DigitVal(ds[i - 1]) % 2 = 1 THEN 10 ELSE 0)
                     + DigitVal(ds[i])) \div 2) + 1]])

\* n * 2: a digit receives a carry when the digit after it is 5 or more
Double(ds) ==
    Canonical(<<IF DigitVal(ds[1]) >= 5 THEN "1" ELSE "0">>
              \o [i \in 1..Len(ds) |->
                    DigitChars[((2 * DigitVal(ds[i])
                                 + (IF i < Len(ds) /\ DigitVal(ds[i + 1]) >= 5
                                    THEN 1 ELSE 0)) % 10) + 1]])

\* n + 1
Increment(ds) ==
    LET non9 == {i \in 1..Len(ds) : ds[i] # "9"}
    IN  IF non9 = {} THEN <<"1">> \o [i \in 1..Len(ds) |-> "0"]
        ELSE LET j == CHOOSE i \in non9 : \A k \in non9 : i >= k
             IN  [i \in 1..Len(ds) |->
                    IF i < j THEN ds[i]
                    ELSE IF i = j THEN DigitChars[DigitVal(ds[i]) + 2]
                    ELSE "0"]

RECURSIVE DoubleTimes(_, _)
DoubleTimes(ds, k) == IF k = 0 THEN ds ELSE DoubleTimes(Double(ds), k - 1)

\* 2^53: a double holds every integer below it exactly
TwoTo53 == <<"9", "0", "0", "7", "1", "9", "9", "2", "5", "4", "7", "4", "0",
             "9", "9", "2">>

\* the integer n rounded to a double's 53 significant bits, ties to even:
\* n is halved k times until it is below 2^53, the last bit shifted out
\* (guard) and whether any earlier one was set (sticky) deciding the rounding
RECURSIVE RoundToDouble(_, _, _, _)
RoundToDouble(n, k, guard, sticky) ==
    IF NumeralGE(n, TwoTo53)
    THEN RoundToDouble(Halve(n), k + 1, IsOdd(n), sticky \/ guard)
    ELSE DoubleTimes(IF guard /\ (sticky \/ IsOdd(n)) THEN Increment(n) ELSE n, k)

\* int(float(ds)) for a run of digits ds, as a numeral (finite doubles only)
int_of_float(ds) == RoundToDouble(Canonical(ds), 0, FALSE, FALSE)

\* text.replace(c, "")
Remove(text, c) == SelectSeq(text, LAMBDA x : x # c)

\* text.strip(): leading and trailing blanks removed
Strip(text) ==
    LET inked == {i \in 1..Len(text) : text[i] # " "}
    IN  IF inked = {} THEN <<>>
        ELSE SubSeq(text, CHOOSE i \in inked : \A j \in inked : i <= j,
                          CHOOSE i \in inked : \A j \in inked : i >= j)

\* text.lower(), on the letters the counterpart's inputs use
LowerChar(c) == CASE c = "E" -> "e" [] c = "X" -> "x" [] c = "I" -> "i"
                  [] c = "T" -> "t" [] c = "Q" -> "q" [] c = "U" -> "u"
                  [] OTHER -> c
Lower(text) == [i \in 1..Len(text) |-> LowerChar(text[i])]

\* the longest run of digits of text that starts at position i
DigitRunAt(text, i) ==
    LET stops == {j \in i..Len(text) : ~IsDigit(text[j])}
        last  == IF stops = {} THEN Len(text)
                 ELSE (CHOOSE j \in stops : \A k \in stops : j <= k) - 1
    IN  SubSeq(text, i, last)

\* the position of the first digit of text, 0 if it has none
FirstDigit(text) ==
    LET at == {i \in 1..Len(text) : IsDigit(text[i])}
    IN  IF at = {} THEN 0 ELSE CHOOSE i \in at : \A j \in at : i <= j

\* re.search(r"(\d+)", text): the leftmost longest run of digits, <<>> if none
SearchDigits(text) ==
    LET i == FirstDigit(text)
    IN  IF i = 0 THEN <<>> ELSE DigitRunAt(text, i)

\* re.search(r"(\d+(\.\d+)?)", text): the matched integer part and fraction
\* digits of the leftmost match, both <<>> if there is none
SearchNumber(text) ==
    LET i == FirstDigit(text)
    IN  IF i = 0 THEN [int |-> <<>>, frac |-> <<>>]
        ELSE LET ip  == DigitRunAt(text, i)
                 dot == i + Len(ip)
                 fp  == IF dot <= Len(text) /\ text[dot] = "."
                        THEN DigitRunAt(text, dot + 1) ELSE <<>>
             IN  [int |-> ip, frac |-> fp]

\* extract_price, its result as a numeral: commas and rupee signs removed,
\* then int(float(first number)); int(float("i.f")) is int(float("i")) for the
\* short fractions of this model
extract_price_numeral(text) ==
    LET s == Strip(Remove(Remove(text, ","), "INR"))
        m == SearchNumber(s)
    IN  IF Len(m.int) = 0 THEN <<"0">> ELSE int_of_float(m.int)

\* extract_price
extract_price(text) == ParseNat(extract_price_numeral(text))

-----------------------------------------------------------------------------
(* Pricing model *)

\* grade_adj.get(product.quality_grade, 1.0), plus 0.02 with the export flag,
\* in hundredths
Multiplier(product) ==
    (CASE product.quality_grade = "A"      -> 105
       [] product.quality_grade = "B"      -> 95
       [] product.quality_grade = "Export" -> 110
       [] OTHER                            -> 100)
    + (IF product.export_grade THEN 2 ELSE 0)

\* YourBuyerAgent.calculate_fair_price
buyer_calculate_fair_price(product) ==
    LET base == product.base_market_price
        fair == IntMul(base, Multiplier(product), 100)
    IN  Max(IntMul07(base), Min(IntMul(base, 12, 10), fair))

\* variant: the floor of one rupee above market price left out
seller_calculate_fair_price_NoFloor(product) ==
    IntMul(product.base_market_price, Multiplier(product), 100)

\* YourSellerAgent.calculate_fair_price
seller_calculate_fair_price(product) ==
    LET base == product.base_market_price
        fair == IntMul(base, Multiplier(product), 100)
    IN  Max(fair, base + 1)

-----------------------------------------------------------------------------
(* Advisory provider.  An outcome of the subprocess is [ok, stdout]: ok is  *)
(* FALSE when running it raised (tool missing, non-zero exit, decode error) *)

buyer_fallback(fallback_price) ==
    <<"I can offer ", "INR">> \o Digits(fallback_price) \o <<".">>

seller_fallback(fallback_price) ==
    <<"I can do ", "INR">> \o Digits(fallback_price) \o <<".">>

\* variant: a failed run passed on as an empty reply, no fallback text
buyer_query_ollama_NoFallback(outcome, fallback_price) ==
    IF outcome.ok THEN Strip(outcome.stdout) ELSE <<>>

\* YourBuyerAgent.query_ollama
buyer_query_ollama(outcome, fallback_price) ==
    IF outcome.ok
    THEN LET response == Strip(outcome.stdout)
         IN  IF Len(response) > 0 THEN response ELSE buyer_fallback(fallback_price)
    ELSE buyer_fallback(fallback_price)

\* YourSellerAgent.query_ollama
seller_query_ollama(outcome, fallback_price) ==
    IF outcome.ok
    THEN LET response == Strip(outcome.stdout)
         IN  IF Len(response) > 0 THEN response ELSE seller_fallback(fallback_price)
    ELSE seller_fallback(fallback_price)

-----------------------------------------------------------------------------
(* Decision engine, buyer *)

Last(seq) == seq[Len(seq)]

\* the round tests of the buyer (lines 96 and 106)
BuyerConcessionRound(ctx) == ctx.current_round = 9

\* variant: the forced close tested against the round after the last
BuyerFinalRound_Late(ctx) == ctx.current_round = MAX_ROUNDS + 1

BuyerFinalRound(ctx) == ctx.current_round = 10

\* variant: the cap applied, the floor forgotten
Round9Clamp_NoFloor(target, min_willing, max_willing) ==
    IF target > max_willing THEN max_willing ELSE target

\* the two successive ifs of round 9 (lines 99-102)
Round9Clamp(target, min_willing, max_willing) ==
    LET t1 == IF target > max_willing THEN max_willing ELSE target
    IN  IF t1 < min_willing THEN min_willing ELSE t1

\* variant: the cap applied, the floor forgotten
BuyerClamp_NoFloor(counter, min_willing, max_willing) ==
    IF counter > max_willing THEN [counter |-> max_willing, msg |-> "limit"]
    ELSE [counter |-> counter, msg |-> "reply"]

\* the if / elif of the normal rounds (lines 123-128): the clamped counter and
\* whether the advisory message was replaced
BuyerClamp(counter, min_willing, max_willing) ==
    IF counter > max_willing THEN [counter |-> max_willing, msg |-> "limit"]
    ELSE IF counter < min_willing THEN [counter |-> min_willing, msg |-> "final"]
    ELSE [counter |-> counter, msg |-> "reply"]

\* variant: the tolerance left out
BuyerAccepts_NoTolerance(seller_price, fair_price, max_willing) ==
    seller_price <= max_willing /\ seller_price <= fair_price

\* the acceptance override (lines 130-131)
BuyerAccepts(seller_price, fair_price, max_willing) ==
    LET tolerance == IntMul(fair_price, 2, 100)
    IN  seller_price <= max_willing /\ seller_price <= fair_price + tolerance

BuyerAcceptMsg(seller_price) ==
    <<"Alright", ",", " I accept ", "INR">> \o Digits(seller_price) \o <<".">>

\* variant: an early deal closed at the agent's own counter
respond_to_seller_offer_OwnPrice(ctx, seller_price, seller_message, outcome) ==
    LET fair_price  == buyer_calculate_fair_price(ctx.product)
        last_offer  == IF Len(ctx.your_offers) > 0 THEN Last(ctx.your_offers)
                       ELSE IntMul(fair_price, 75, 100)
        max_willing == ctx.your_budget
        min_willing == Max(1, IntMul(fair_price, 6, 10))
        ai_reply    == buyer_query_ollama(outcome, last_offer)
        counter     == BuyerClamp(extract_price(ai_reply), min_willing,
                                  max_willing).counter
    IN  IF BuyerConcessionRound(ctx)
        THEN [status |-> ONGOING,
              price |-> Round9Clamp(IntMul(seller_price, 9, 10), min_willing,
                                    max_willing),
              message |-> <<"If you can reduce">>, queried |-> FALSE]
        ELSE IF BuyerFinalRound(ctx)
        THEN [status |-> ACCEPTED, price |-> seller_price,
              message |-> BuyerAcceptMsg(seller_price), queried |-> FALSE]
        ELSE IF BuyerAccepts(seller_price, fair_price, max_willing)
        THEN [status |-> ACCEPTED, price |-> counter,
              message |-> BuyerAcceptMsg(counter), queried |-> TRUE]
        ELSE [status |-> ONGOING, price |-> counter,
              message |-> ai_reply, queried |-> TRUE]

\* YourBuyerAgent.respond_to_seller_offer; outcome is what the advisory
\* subprocess does if it is run.  queried tells whether it was run.
respond_to_seller_offer(ctx, seller_price, seller_message, outcome) ==
    LET fair_price  == buyer_calculate_fair_price(ctx.product)
        last_offer  == IF Len(ctx.your_offers) > 0 THEN Last(ctx.your_offers)
                       ELSE IntMul(fair_price, 75, 100)
        max_willing == ctx.your_budget
        min_willing == Max(1, IntMul(fair_price, 6, 10))
    IN  IF BuyerConcessionRound(ctx)
        THEN LET target_price ==
                     Round9Clamp(IntMul(seller_price, 9, 10), min_willing, max_willing)
             IN  [status  |-> ONGOING, price |-> target_price,
                  message |-> <<"If you can reduce by ", "1", "0", "% to ", "INR">>
                              \o Digits(target_price)
                              \o <<",", " we have a deal", ".">>,
                  queried |-> FALSE]
        ELSE IF BuyerFinalRound(ctx)
        THEN [status |-> ACCEPTED, price |-> seller_price,
              message |-> BuyerAcceptMsg(seller_price), queried |-> FALSE]
        ELSE LET ai_reply == buyer_query_ollama(outcome, last_offer)
                 clamped  == BuyerClamp(extract_price(ai_reply), min_willing, max_willing)
                 counter  == clamped.counter
                 reply    ==
                     CASE clamped.msg = "limit" ->
                            <<"Considering my budget and the value", ",",
                              " I can only go up to ", "INR">>
                            \o Digits(counter) \o <<".">>
                       [] clamped.msg = "final" ->
                            <<"This is my best and final offer given the market reality - ",
                              "INR">> \o Digits(counter) \o <<".">>
                       [] OTHER -> ai_reply
             IN  IF BuyerAccepts(seller_price, fair_price, max_willing)
                 THEN [status |-> ACCEPTED, price |-> seller_price,
                       message |-> BuyerAcceptMsg(seller_price), queried |-> TRUE]
                 ELSE [status |-> ONGOING, price |-> counter,
                       message |-> reply, queried |-> TRUE]

-----------------------------------------------------------------------------
(* Decision engine, seller *)

\* the round tests of the seller (lines 96 and 100)
SellerConcessionRound(ctx) == ctx.current_round = 9

\* variant: the forced close tested against the round after the last
SellerFinalRound_Late(ctx) == ctx.current_round = 11

SellerFinalRound(ctx) == ctx.current_round = 10

\* variant: the market price left out of the acceptance condition
SellerAccepts_LastOnly(buyer_price, base_market_price, last_offer) ==
    buyer_price >= last_offer

\* the acceptance condition (line 123)
SellerAccepts(buyer_price, base_market_price, last_offer) ==
    buyer_price >= base_market_price /\ buyer_price >= last_offer

\* variant: the advisory price returned as it is, no floor
SellerClamp_NoFloor(counter, base_market_price) ==
    [counter |-> counter, msg |-> "reply"]

\* variant: a counter equal to the market price let through
SellerClamp_Strict(counter, base_market_price) ==
    IF counter < base_market_price
    THEN [counter |-> base_market_price + 1, msg |-> "best"]
    ELSE [counter |-> counter, msg |-> "reply"]

\* the floor above market price (lines 127-130): the counter and whether the
\* advisory message was replaced
SellerClamp(counter, base_market_price) ==
    IF counter <= base_market_price
    THEN [counter |-> base_market_price + 1, msg |-> "best"]
    ELSE [counter |-> counter, msg |-> "reply"]

\* variant: the deal made when the buyer's price reaches the advised counter
respond_to_buyer_offer_Advised(ctx, buyer_price, buyer_message, outcome) ==
    LET fair_price == seller_calculate_fair_price(ctx.product)
        last_offer == IF Len(ctx.seller_offers) > 0 THEN Last(ctx.seller_offers)
                      ELSE fair_price + 50
        ai_reply   == seller_query_ollama(outcome, last_offer)
        clamped    == SellerClamp(extract_price(ai_reply),
                                  ctx.product.base_market_price)
    IN  IF SellerConcessionRound(ctx)
        THEN [status |-> ONGOING, price |-> IntMul(buyer_price, 11, 10),
              message |-> <<"If you can raise it">>, queried |-> FALSE]
        ELSE IF SellerFinalRound(ctx)
        THEN [status |-> ACCEPTED, price |-> buyer_price,
              message |-> <<"Alright">>, queried |-> FALSE]
        ELSE IF buyer_price >= clamped.counter
        THEN [status |-> ACCEPTED, price |-> buyer_price,
              message |-> <<"Deal">>, queried |-> TRUE]
        ELSE [status |-> ONGOING, price |-> clamped.counter,
              message |-> ai_reply, queried |-> TRUE]

\* YourSellerAgent.respond_to_buyer_offer
respond_to_buyer_offer(ctx, buyer_price, buyer_message, outcome) ==
    IF SellerConcessionRound(ctx)
    THEN LET counter == IntMul(buyer_price, 11, 10)
         IN  [status  |-> ONGOING, price |-> counter,
              message |-> <<"If you can raise it by ", "1", "0", "% to ", "INR">>
                          \o Digits(counter) \o <<",", " we have a deal", ".">>,
              queried |-> FALSE]
    ELSE IF SellerFinalRound(ctx)
    THEN [status |-> ACCEPTED, price |-> buyer_price,
          message |-> <<"Alright", ",", " deal at ", "INR">>
                      \o Digits(buyer_price) \o <<"!">>,
          queried |-> FALSE]
    ELSE LET fair_price == seller_calculate_fair_price(ctx.product)
             last_offer == IF Len(ctx.seller_offers) > 0 THEN Last(ctx.seller_offers)
                           ELSE fair_price + 50
             ai_reply   == seller_query_ollama(outcome, last_offer)
             clamped    == SellerClamp(extract_price(ai_reply),
                                       ctx.product.base_market_price)
         IN  IF SellerAccepts(buyer_price, ctx.product.base_market_price, last_offer)
             THEN [status  |-> ACCEPTED, price |-> buyer_price,
                   message |-> <<"Deal at ", "INR">> \o Digits(buyer_price)
                               \o <<"!", " You're getting unmatched value", ".">>,
                   queried |-> TRUE]
             ELSE [status  |-> ONGOING, price |-> clamped.counter,
                   message |-> IF clamped.msg = "best"
                               THEN <<"Considering the quality of these ",
                                      ctx.product.name, ",", " the best I can do is ",
                                      "INR">> \o Digits(clamped.counter) \o <<".">>
                               ELSE ai_reply,
                   queried |-> TRUE]

-----------------------------------------------------------------------------
(* Round controllers *)

Message(role, text) == [role |-> role, message |-> text]

\* the product and context built by chat_with_llama (lines 211-228)
BuyerProduct ==
    [name |-> "Alphonso Mangoes", base_market_price |-> 500,
     quality_grade |-> "A", export_grade |-> TRUE]

BuyerContext0 ==
    [product |-> BuyerProduct, your_budget |-> 450, current_round |-> 0,
     seller_offers |-> <<>>, your_offers |-> <<>>, messages |-> <<>>]

\* the product and context built by chat_with_seller_llama (lines 177-194)
SellerProduct ==
    [name |-> "Alphonso Mangoes", base_market_price |-> 600,
     quality_grade |-> "A", export_grade |-> TRUE]

SellerContext0 ==
    [product |-> SellerProduct, seller_minimum_price |-> 460, current_round |-> 0,
     buyer_offers |-> <<>>, seller_offers |-> <<>>, messages |-> <<>>]

\* the counterpart's offer entered into the context (buyer side, lines 240-242)
BuyerRecordOffer(ctx, seller_price, text) ==
    [ctx EXCEPT !.current_round = @ + 1,
                !.seller_offers = Append(@, seller_price),
                !.messages = Append(@, Message("seller", text))]

\* variant: the reply's offer entered, its message forgotten
BuyerRecordReply_NoMessage(ctx, r) ==
    [ctx EXCEPT !.your_offers = Append(@, r.price)]

\* the agent's reply entered into the context (buyer side, lines 245-246)
BuyerRecordReply(ctx, r) ==
    [ctx EXCEPT !.your_offers = Append(@, r.price),
                !.messages = Append(@, Message("buyer", r.message))]

\* variant: the offer list replaced by the new offer instead of extended
SellerRecordOffer_Overwrite(ctx, buyer_price, text) ==
    [ctx EXCEPT !.current_round = @ + 1,
                !.buyer_offers = <<buyer_price>>,
                !.messages = Append(@, Message("buyer", text))]

\* the counterpart's offer entered into the context (seller side, lines 213-215)
SellerRecordOffer(ctx, buyer_price, text) ==
    [ctx EXCEPT !.current_round = @ + 1,
                !.buyer_offers = Append(@, buyer_price),
                !.messages = Append(@, Message("buyer", text))]

\* the agent's reply entered into the context (seller side, lines 218-219)
SellerRecordReply(ctx, r) ==
    [ctx EXCEPT !.seller_offers = Append(@, r.price),
                !.messages = Append(@, Message("seller", r.message))]

\* variant: the comparison made without lower()
IsExit_NoLower(text) == text \in {<<"e", "x", "i", "t">>, <<"q", "u", "i", "t">>}

\* user_input.lower() in ["exit", "quit"]
IsExit(text) == Lower(text) \in {<<"e", "x", "i", "t">>, <<"q", "u", "i", "t">>}

\* variant: a line without a number read as 0, as the seller side does
BuyerParse_Zero(text, product) ==
    LET m == SearchDigits(Remove(text, ","))
    IN  IF Len(m) > 0 THEN ParseNat(m) ELSE 0

\* the price read from the counterpart's line (buyer side, lines 236-237)
BuyerParse(text, product) ==
    LET m == SearchDigits(Remove(text, ","))
    IN  IF Len(m) > 0 THEN ParseNat(m) ELSE product.base_market_price

\* the price read from the counterpart's line (seller side, lines 209-210)
SellerParse(text) ==
    LET m == SearchDigits(Remove(text, ","))
    IN  IF Len(m) > 0 THEN ParseNat(m) ELSE 0

\* lines the counterpart types in the sessions explored
BuyerInputs ==
    { <<"4", "8", "0">>,                      \* above the budget
      <<"n", "o", " ", "w", "a", "y">>,       \* no number
      <<"INR", "4", "0", "0", " ">>,          \* within the budget
      <<"e", "x", "i", "t">>, <<" ", "Q", "U", "I", "T">> }

SellerInputs ==
    { <<"5", "0", "0">>,                      \* below market price
      <<"n", "o", " ", "w", "a", "y">>,       \* no number
      <<"1", ",", "0", "0", "0">>,            \* above every offer
      <<"e", "x", "i", "t">>, <<" ", "Q", "U", "I", "T">> }

\* what the advisory subprocess may do in the sessions explored
BuyerOutcomes ==
    { [ok |-> FALSE, stdout |-> <<>>],
      [ok |-> TRUE, stdout |-> <<"How about ", "INR", "4", "3", "0", "?">>] }

SellerOutcomes ==
    { [ok |-> FALSE, stdout |-> <<>>],
      [ok |-> TRUE, stdout |-> <<"How about ", "INR", "6", "5", "0", "?">>] }

Init ==
    /\ prog \in {"buyer", "seller"}
    /\ context = IF prog = "buyer" THEN BuyerContext0 ELSE SellerContext0
    /\ pc = "start"
    /\ user_input = <<>>
    /\ call = NoCall
    /\ ret = NoRet
    /\ invocations = 0
    /\ answers = 0
    /\ final_price = NoPrice

\* chat_with_llama up to its first loop test
BuyerStart ==
    /\ prog = "buyer" /\ pc = "start"
    /\ IF context.current_round < MAX_ROUNDS
       THEN pc' = "input" /\ final_price' = final_price
       ELSE /\ pc' = "no_deal"
            /\ final_price' = IF Len(context.your_offers) > 0
                              THEN Last(context.your_offers) ELSE 0
    /\ UNCHANGED <<prog, context, user_input, call, ret, invocations, answers>>

\* chat_with_seller_llama up to its first prompt: the opening offer
SellerStart ==
    /\ prog = "seller" /\ pc = "start"
    /\ LET opening_price == IntMul115(context.product.base_market_price)
           opening_msg   == <<"These are premium ", context.product.name,
                              ".", " I can offer them for ", "INR">>
                            \o Digits(opening_price) \o <<".">>
       IN  context' = [context EXCEPT
                         !.seller_offers = Append(@, opening_price),
                         !.messages = Append(@, Message("seller", opening_msg))]
    /\ pc' = "input"
    /\ UNCHANGED <<prog, user_input, call, ret, invocations, answers, final_price>>

\* one line read by chat_with_llama, up to the call of the agent (lines 231-242)
BuyerRead ==
    /\ prog = "buyer" /\ pc = "input"
    /\ \E line \in BuyerInputs :
         LET stripped == Strip(line)
             seller_price == BuyerParse(stripped, context.product)
         IN  /\ user_input' = stripped
             /\ IF IsExit(stripped)
                THEN /\ pc' = "exited"
                     /\ UNCHANGED <<context, call>>
                ELSE /\ context' = BuyerRecordOffer(context, seller_price, stripped)
                     /\ call' = [price |-> seller_price, message |-> stripped,
                                 outcome |-> NotRun]
                     /\ pc' = "respond"
    /\ UNCHANGED <<prog, ret, invocations, answers, final_price>>

\* the agent's reply and the rest of the iteration (lines 244-257)
BuyerRespond ==
    /\ prog = "buyer" /\ pc = "respond"
    /\ \E outcome \in BuyerOutcomes :
         LET r   == respond_to_seller_offer(context, call.price, call.message, outcome)
             ctx == BuyerRecordReply(context, r)
         IN  /\ r.queried /\ outcome.ok => answers < MaxAnswers
             /\ call' = [call EXCEPT !.outcome = IF r.queried THEN outcome ELSE NotRun]
             /\ answers' = IF r.queried /\ outcome.ok THEN answers + 1 ELSE answers
             /\ ret' = r
             /\ context' = ctx
             /\ IF r.status = ACCEPTED
                THEN pc' = "deal" /\ final_price' = r.price
                ELSE IF ctx.current_round < MAX_ROUNDS
                THEN pc' = "input" /\ final_price' = final_price
                ELSE /\ pc' = "no_deal"
                     /\ final_price' = IF Len(ctx.your_offers) > 0
                                       THEN Last(ctx.your_offers) ELSE 0
    /\ invocations' = invocations + 1
    /\ UNCHANGED <<prog, user_input>>

\* one line read by chat_with_seller_llama, up to the call of the agent
\* (lines 204-215)
SellerRead ==
    /\ prog = "seller" /\ pc = "input"
    /\ \E line \in SellerInputs :
         LET stripped == Strip(line)
             buyer_price == SellerParse(stripped)
         IN  /\ user_input' = stripped
             /\ IF IsExit(stripped)
                THEN /\ pc' = "exited"
                     /\ UNCHANGED <<context, call>>
                ELSE /\ context' = SellerRecordOffer(context, buyer_price, stripped)
                     /\ call' = [price |-> buyer_price, message |-> stripped,
                                 outcome |-> NotRun]
                     /\ pc' = "respond"
    /\ UNCHANGED <<prog, ret, invocations, answers, final_price>>

\* the agent's reply and the rest of the iteration (lines 217-225)
SellerRespond ==
    /\ prog = "seller" /\ pc = "respond"
    /\ \E outcome \in SellerOutcomes :
         LET r == respond_to_buyer_offer(context, call.price, call.message, outcome)
         IN  /\ r.queried /\ outcome.ok => answers < MaxAnswers
             /\ call' = [call EXCEPT !.outcome = IF r.queried THEN outcome ELSE NotRun]
             /\ answers' = IF r.queried /\ outcome.ok THEN answers + 1 ELSE answers
             /\ ret' = r
             /\ context' = SellerRecordReply(context, r)
             /\ IF r.status = ACCEPTED
                THEN pc' = "deal" /\ final_price' = r.price
                ELSE pc' = "input" /\ final_price' = final_price
    /\ invocations' = invocations + 1
    /\ UNCHANGED <<prog, user_input>>

Next == BuyerStart \/ SellerStart \/ BuyerRead \/ BuyerRespond
        \/ SellerRead \/ SellerRespond

Spec == Init /\ [][Next]_vars

-----------------------------------------------------------------------------
(* Single turns of the two agents on arbitrary contexts *)

MaxBase   == 50
LowPrice  == 20
MaxPrice  == 58
PriceSpan == 12
HighPrice == 110

TurnBases  == (MaxBase - 1)..MaxBase
Grades     == {"A", "B", "Export", "C"}
TurnPrices == {0, 1, LowPrice, HighPrice} \cup ((MaxPrice - PriceSpan)..MaxPrice)
TurnBudgets == {1, LowPrice} \cup {MaxPrice - 2 * k : k \in 0..(PriceSpan \div 2)}
TurnRounds == {1, 9, 10, 11}
TurnOwnOffers == {<<>>, <<MaxBase - 3>>, <<MaxBase + 3>>}

TurnProducts ==
    [name : {"Alphonso Mangoes"}, base_market_price : TurnBases,
     quality_grade : Grades, export_grade : BOOLEAN]

TurnBuyerContexts ==
    [product : TurnProducts, your_budget : TurnBudgets,
     current_round : TurnRounds, seller_offers : {<<>>},
     your_offers : TurnOwnOffers, messages : {<<>>}]

TurnSellerContexts ==
    [product : TurnProducts, seller_minimum_price : {LowPrice},
     current_round : TurnRounds, buyer_offers : {<<>>},
     seller_offers : TurnOwnOffers, messages : {<<>>}]

ReplyText(n) == <<"My offer is ", "INR">> \o Digits(n)

\* what the advisory subprocess may do: fail, print nothing or blanks, print a
\* text without a number, a price, or a price with a fraction
TurnOutcomes ==
    { [ok |-> FALSE, stdout |-> <<>>],
      [ok |-> TRUE, stdout |-> <<>>],
      [ok |-> TRUE, stdout |-> <<" ">>],
      [ok |-> TRUE, stdout |-> <<"ACCEPT">>] }
    \cup { [ok |-> TRUE, stdout |-> ReplyText(n)] : n \in TurnPrices }
    \cup { [ok |-> TRUE, stdout |-> ReplyText(MaxBase) \o <<".", "9">>] }

TurnInit ==
    /\ prog \in {"buyer", "seller"}
    /\ context \in IF prog = "buyer" THEN TurnBuyerContexts ELSE TurnSellerContexts
    /\ pc = "call"
    /\ user_input = <<>>
    /\ call = NoCall
    /\ ret = NoRet
    /\ invocations = 0
    /\ answers = 0
    /\ final_price = NoPrice

\* one call of YourBuyerAgent.respond_to_seller_offer
BuyerTurn ==
    /\ prog = "buyer" /\ pc = "call"
    /\ \E seller_price \in TurnPrices, outcome \in TurnOutcomes :
         LET r == respond_to_seller_offer(context, seller_price, <<>>, outcome)
         IN  /\ call' = [price |-> seller_price, message |-> <<>>,
                         outcome |-> IF r.queried THEN outcome ELSE NotRun]
             /\ ret' = r
             /\ answers' = IF r.queried /\ outcome.ok THEN 1 ELSE 0
    /\ pc' = "returned"
    /\ invocations' = invocations + 1
    /\ UNCHANGED <<prog, context, user_input, final_price>>

\* one call of YourSellerAgent.respond_to_buyer_offer
SellerTurn ==
    /\ prog = "seller" /\ pc = "call"
    /\ \E buyer_price \in TurnPrices, outcome \in TurnOutcomes :
         LET r == respond_to_buyer_offer(context, buyer_price, <<>>, outcome)
         IN  /\ call' = [price |-> buyer_price, message |-> <<>>,
                         outcome |-> IF r.queried THEN outcome ELSE NotRun]
             /\ ret' = r
             /\ answers' = IF r.queried /\ outcome.ok THEN 1 ELSE 0
    /\ pc' = "returned"
    /\ invocations' = invocations + 1
    /\ UNCHANGED <<prog, context, user_input, final_price>>

TurnNext == BuyerTurn \/ SellerTurn

TurnSpec == TurnInit /\ [][TurnNext]_vars

-----------------------------------------------------------------------------
(* Properties of single turns, checked under TurnSpec *)

BuyerReturned  == prog = "buyer" /\ pc = "returned"
SellerReturned == prog = "seller" /\ pc = "returned"
NormalRound    == context.current_round \notin {9, 10}

\* the guardrails as the specification states them
FairOfBuyer == buyer_calculate_fair_price(context.product)
MinWilling  == Max(1, (FairOfBuyer * 6) \div 10)
MaxWilling  == context.your_budget

\* the price the advisory text of the last call carries (0 without a number)
Advised == extract_price(IF prog = "buyer"
                         THEN buyer_query_ollama(call.outcome, 0)
                         ELSE seller_query_ollama(call.outcome, 0))

\* C1 as stated: on every buyer turn of a round other than 9 and 10 the
\* counter returned with status Ongoing lies in [min_willing, max_willing],
\* for any budget.
C1_CounterInGuardrails ==
    (BuyerReturned /\ NormalRound /\ ret.status = ONGOING)
        => (MinWilling <= ret.price /\ ret.price <= MaxWilling)

\* C1 amended: on every buyer turn of a round other than 9 and 10 the counter
\* returned with status Ongoing lies in [min_willing, max_willing] whenever
\* min_willing <= budget; when the budget is below min_willing the counter is
\* the budget or min_willing.
C1_CounterInGuardrailsIfOrdered ==
    (BuyerReturned /\ NormalRound /\ ret.status = ONGOING)
        => IF MinWilling <= MaxWilling
           THEN MinWilling <= ret.price /\ ret.price <= MaxWilling
           ELSE ret.price \in {MinWilling, MaxWilling}

\* a buyer turn whose advisory price was below min_willing and came back
\* raised to min_willing, under a budget above min_willing
C1_Witness ==
    /\ BuyerReturned /\ context.current_round = 1 /\ ret.status = ONGOING
    /\ call.outcome.ok /\ Advised < MinWilling
    /\ MinWilling < MaxWilling /\ ret.price = MinWilling

\* C2: on every seller turn of a round other than 9 and 10 the status is
\* Accepted or the counter is strictly above the base market price.
C2_CounterAboveMarket ==
    (SellerReturned /\ NormalRound)
        => (ret.status = ACCEPTED \/ ret.price > context.product.base_market_price)

\* a seller turn whose advisory price was exactly the market price and came
\* back as market price + 1
C2_Witness ==
    /\ SellerReturned /\ context.current_round = 1 /\ ret.status = ONGOING
    /\ call.outcome.ok /\ Advised = context.product.base_market_price
    /\ ret.price = context.product.base_market_price + 1

\* C3: on round 10 both agents return Accepted at the counterpart's price of
\* that round, without running the advisory provider.
C3_Round10Accepts ==
    (pc = "returned" /\ context.current_round = 10)
        => (ret.status = ACCEPTED /\ ret.price = call.price /\ ~ret.queried
            /\ call.outcome = NotRun)

\* a round-10 seller turn accepting a price below the market price
C3_Witness ==
    /\ SellerReturned /\ context.current_round = 10 /\ ret.status = ACCEPTED
    /\ call.price < context.product.base_market_price /\ ret.price = call.price

\* C4 as stated: on round 9 the buyer returns Ongoing with the target
\* clamp(int(seller_price*0.9), min_willing, max_willing), a value inside
\* [min_willing, max_willing], for every seller price and every budget.
C4_Round9TargetInGuardrails ==
    (BuyerReturned /\ context.current_round = 9)
        => /\ ret.status = ONGOING
           /\ ret.price = Max(MinWilling, Min(MaxWilling, (call.price * 9) \div 10))
           /\ MinWilling <= ret.price /\ ret.price <= MaxWilling

\* C4 amended: on round 9 the buyer returns Ongoing with the target
\* max(min_willing, min(max_willing, int(seller_price*0.9))); it lies inside
\* [min_willing, max_willing] whenever min_willing <= budget, and is
\* min_willing when the budget is below min_willing.
C4_Round9Target ==
    (BuyerReturned /\ context.current_round = 9)
        => /\ ret.status = ONGOING
           /\ ret.price = Max(MinWilling, Min(MaxWilling, (call.price * 9) \div 10))
           /\ IF MinWilling <= MaxWilling
              THEN MinWilling <= ret.price /\ ret.price <= MaxWilling
              ELSE ret.price = MinWilling

\* a round-9 buyer turn that stays Ongoing although the seller's price meets
\* the acceptance override, asking for the unclamped 10% reduction
C4_Witness ==
    /\ BuyerReturned /\ context.current_round = 9 /\ ret.status = ONGOING
    /\ call.price <= MaxWilling
    /\ call.price <= FairOfBuyer + (FairOfBuyer * 2) \div 100
    /\ MinWilling < ret.price /\ ret.price < MaxWilling
    /\ ret.price = (call.price * 9) \div 10

\* C5: on every buyer turn of a round before 9, the turn returns Accepted at
\* seller_price if seller_price <= budget and
\* seller_price <= fair + int(fair*0.02), and Ongoing otherwise, whatever the
\* advisory reply.
C5_AcceptanceOverride ==
    (BuyerReturned /\ context.current_round < 9)
        => IF /\ call.price <= context.your_budget
              /\ call.price <= FairOfBuyer + (FairOfBuyer * 2) \div 100
           THEN ret.status = ACCEPTED /\ ret.price = call.price
           ELSE ret.status = ONGOING

\* an early acceptance of a price above the fair price, within the tolerance,
\* against an advisory text that named another price
C5_Witness ==
    /\ BuyerReturned /\ context.current_round = 1 /\ ret.status = ACCEPTED
    /\ call.price > FairOfBuyer /\ ret.price = call.price
    /\ call.outcome.ok /\ Advised # call.price /\ Advised > 0

\* the seller's last offer as the specification states it
LastSellerOffer ==
    IF Len(context.seller_offers) > 0
    THEN context.seller_offers[Len(context.seller_offers)]
    ELSE seller_calculate_fair_price(context.product) + 50

\* C6: on every seller turn of a round other than 9 and 10 the status is
\* Accepted if and only if buyer_price >= base_market_price and
\* buyer_price >= last_offer (fair + 50 with no own offer yet); an accepted
\* turn returns buyer_price.
C6_SellerAcceptance ==
    (SellerReturned /\ NormalRound)
        => /\ ret.status = ACCEPTED
                <=> (/\ call.price >= context.product.base_market_price
                     /\ call.price >= LastSellerOffer)
           /\ ret.status = ACCEPTED => ret.price = call.price
           /\ ret.status \in {ACCEPTED, ONGOING}

\* a seller turn with no own offer yet that accepts a price of at least
\* fair + 50
C6_Witness ==
    /\ SellerReturned /\ context.current_round = 1 /\ ret.status = ACCEPTED
    /\ context.seller_offers = <<>>
    /\ call.price >= seller_calculate_fair_price(context.product) + 50

-----------------------------------------------------------------------------
(* Properties of whole sessions, checked under Spec *)

Halted == pc \in {"exited", "deal", "no_deal"}
AtRest == pc = "input" \/ Halted

CounterpartOffers ==
    IF prog = "buyer" THEN context.seller_offers ELSE context.buyer_offers
OwnOffers ==
    IF prog = "buyer" THEN context.your_offers ELSE context.seller_offers
OwnRole     == prog
OtherRole   == IF prog = "buyer" THEN "seller" ELSE "buyer"

\* what is left of a session: three steps for each round not yet played,
\* less the steps of the current round already taken
Remaining ==
    3 * (MAX_ROUNDS - context.current_round)
    + (CASE pc = "start" -> 3 [] pc = "respond" -> 2 [] pc = "input" -> 1
         [] OTHER -> 0)

\* C7: with a counterpart that keeps answering, the round counter never
\* exceeds 10 and the session halts (a session not yet halted stands at a
\* step it can take, and every step uses up some of the bounded remainder); a session
\* whose tenth round is played ends Accepted at the counterpart's round-10
\* price, in both controllers.
C7_SessionHalts ==
    /\ [](context.current_round <= MAX_ROUNDS)
    /\ [](Remaining >= 0 /\ (Halted \/ pc \in {"start", "input", "respond"}))
    /\ [][Remaining' < Remaining]_vars
    /\ [](invocations = MAX_ROUNDS
            => /\ pc = "deal" /\ ret.status = ACCEPTED
               /\ ret.price = CounterpartOffers[MAX_ROUNDS]
               /\ final_price = CounterpartOffers[MAX_ROUNDS])

\* a seller-side session closed by its tenth round, below market price
C7_Witness ==
    /\ prog = "seller" /\ pc = "deal" /\ context.current_round = MAX_ROUNDS
    /\ ret.price = context.buyer_offers[MAX_ROUNDS] /\ ret.price = 0

C9_CompleteRounds ==
    AtRest =>
        LET N     == invocations
            lead  == IF prog = "seller" THEN 1 ELSE 0
        IN  /\ context.current_round = N
            /\ Len(CounterpartOffers) = N
            /\ Len(OwnOffers) = N + lead
            /\ Len(context.messages) = 2 * N + lead
            /\ \A i \in 1..lead : context.messages[i].role = OwnRole
            /\ \A k \in 1..N :
                 /\ context.messages[lead + 2 * k - 1].role = OtherRole
                 /\ context.messages[lead + 2 * k].role = OwnRole

\* a seller-side session waiting for the third line
C9_Witness ==
    /\ prog = "seller" /\ pc = "input" /\ invocations = 2
    /\ Len(context.seller_offers) = 3 /\ Len(context.buyer_offers) = 2

\* C10: a line "exit" or "quit" (in any case) at the prompt halts the session
\* and leaves the context, the engine's call count and its last result as
\* they were; nothing happens after the halt.
C10_ExitFrame ==
    [][ /\ (pc = "input" /\ Lower(user_input') \in {<<"e", "x", "i", "t">>,
                                                     <<"q", "u", "i", "t">>})
            => /\ pc' = "exited"
               /\ context' = context
               /\ invocations' = invocations
               /\ ret' = ret
               /\ final_price' = final_price
        /\ pc # "exited" ]_vars

\* a buyer-side session left with QUIT after four rounds
C10_Witness ==
    /\ prog = "buyer" /\ pc = "exited" /\ user_input = <<"Q", "U", "I", "T">>
    /\ context.current_round = 4 /\ invocations = 4

-----------------------------------------------------------------------------
(* Further properties of single turns, checked under TurnSpec *)

\* the advisory subprocess of the last call raised or printed nothing but blanks
AdvisoryUnusable == ~call.outcome.ok \/ Strip(call.outcome.stdout) = <<>>

\* the previous own offer, or the default of the agent when there is none
PreviousOwnOffer ==
    IF Len(OwnOffers) > 0 THEN OwnOffers[Len(OwnOffers)]
    ELSE IF prog = "buyer" THEN (FairOfBuyer * 75) \div 100
    ELSE seller_calculate_fair_price(context.product) + 50

\* C11: when the advisory provider fails or prints nothing on a round other
\* than 9 and 10, the turn returns Ongoing or Accepted, and a turn that is not
\* an acceptance returns the previous own offer (or the default) passed through
\* the clamp: capped at the budget, else raised to min_willing (buyer); raised
\* to base + 1 unless above the base market price (seller).
C11_FallbackThroughClamp ==
    (pc = "returned" /\ NormalRound /\ ret.queried /\ AdvisoryUnusable)
        => /\ ret.status \in {ONGOING, ACCEPTED}
           /\ (prog = "buyer" /\ ret.status # ACCEPTED)
                => /\ ret.price = IF PreviousOwnOffer > MaxWilling THEN MaxWilling
                                  ELSE Max(MinWilling, PreviousOwnOffer)
                   /\ MinWilling <= MaxWilling
                        => ret.price = Max(MinWilling, Min(MaxWilling, PreviousOwnOffer))
           /\ (prog = "seller" /\ ret.status # ACCEPTED)
                => ret.price = IF PreviousOwnOffer > context.product.base_market_price
                               THEN PreviousOwnOffer
                               ELSE context.product.base_market_price + 1

\* a first buyer turn whose advisory run failed and which counters with the
\* default int(fair*0.75), a value inside the guardrails
C11_Witness ==
    /\ BuyerReturned /\ context.current_round = 1 /\ ret.status = ONGOING
    /\ ~call.outcome.ok /\ ret.queried /\ context.your_offers = <<>>
    /\ ret.price = (FairOfBuyer * 75) \div 100
    /\ MinWilling < ret.price /\ ret.price < MaxWilling

\* the advisory subprocess of the last call printed a text and the price
\* extracted from it is 0
AdvisedNothing ==
    /\ ~AdvisoryUnusable
    /\ extract_price(Strip(call.outcome.stdout)) = 0

\* C12: when the advisory reply carries no number (extracted price 0) on a
\* round other than 9 and 10 and the turn is not an acceptance, the counter is
\* never 0: the buyer returns min_willing, the seller base_market_price + 1.
C12_ZeroIsClamped ==
    (pc = "returned" /\ NormalRound /\ ret.queried /\ AdvisedNothing
     /\ ret.status # ACCEPTED)
        => /\ ret.price # 0
           /\ prog = "buyer" => ret.price = MinWilling
           /\ prog = "seller" => ret.price = context.product.base_market_price + 1

\* a seller turn whose advisory text holds no digit and which counters with
\* market price + 1, its own message in place of the advisory text
C12_Witness ==
    /\ SellerReturned /\ context.current_round = 1 /\ ret.status = ONGOING
    /\ call.outcome.ok /\ FirstDigit(call.outcome.stdout) = 0
    /\ Len(call.outcome.stdout) > 0
    /\ ret.price = context.product.base_market_price + 1
    /\ ret.message # call.outcome.stdout

\* what the agent of the last call returns from the same context and the same
\* counterpart price when the advisory subprocess fails
TurnWithoutAdvice ==
    LET failed == [ok |-> FALSE, stdout |-> <<>>]
    IN  IF prog = "buyer"
        THEN respond_to_seller_offer(context, call.price, call.message, failed)
        ELSE respond_to_buyer_offer(context, call.price, call.message, failed)

\* C19: the advisory reply never influences whether a deal is made: a turn
\* returns the status that the turn from the same context with the same
\* counterpart price and a failing advisory run returns (so any two advisory
\* replies give the same status), and when that status is Accepted the same
\* price.
C19_AdviceDoesNotDecide ==
    pc = "returned"
        => /\ ret.status = TurnWithoutAdvice.status
           /\ ret.status = ACCEPTED => ret.price = TurnWithoutAdvice.price

\* a buyer turn whose advisory text names the seller's own price, which stays
\* Ongoing with another counter
C19_Witness ==
    /\ BuyerReturned /\ context.current_round = 1 /\ ret.queried
    /\ call.outcome.ok /\ Advised = call.price /\ call.price > 0
    /\ ret.status = ONGOING /\ ret.price # call.price

-----------------------------------------------------------------------------
(* The seller's fair price on arbitrary products *)

MaxFairBase == 24

\* every small base market price and the one of the seller's session, every
\* grade of the table and one outside it, with and without the export flag
FairProducts ==
    [name : {"Alphonso Mangoes"},
     base_market_price : (1..MaxFairBase) \cup {SellerProduct.base_market_price},
     quality_grade : Grades, export_grade : BOOLEAN]

FairInit ==
    /\ prog = "seller"
    /\ context \in {[SellerContext0 EXCEPT !.product = p] : p \in FairProducts}
    /\ pc = "price"
    /\ user_input = <<>>
    /\ call = NoCall
    /\ ret = NoRet
    /\ invocations = 0
    /\ answers = 0
    /\ final_price = NoPrice

\* one call of YourSellerAgent.calculate_fair_price
SellerFairPrice ==
    /\ pc = "price"
    /\ ret' = [fair |-> seller_calculate_fair_price(context.product)]
    /\ pc' = "priced"
    /\ UNCHANGED <<prog, context, user_input, call, invocations, answers, final_price>>

FairNext == SellerFairPrice

FairSpec == FairInit /\ [][FairNext]_vars

\* the multiplier as the specification states it, in hundredths
StatedMultiplier ==
    LET g == context.product.quality_grade
    IN  (IF g = "A" THEN 105 ELSE IF g = "B" THEN 95
         ELSE IF g = "Export" THEN 110 ELSE 100)
        + (IF context.product.export_grade THEN 2 ELSE 0)

\* C13: for every product the seller-side fair price is strictly greater than
\* the base market price and equals max(int(base*multiplier), base + 1); for
\* base 600, grade A, export flag set it is 642.
C13_SellerFairAboveMarket ==
    pc = "priced" =>
        LET base == context.product.base_market_price
        IN  /\ ret.fair > base
            /\ ret.fair = Max((base * StatedMultiplier) \div 100, base + 1)
            /\ context.product = SellerProduct => ret.fair = 642

\* a grade-B product without the export flag, whose scaled price falls below
\* market price and whose fair price is market price + 1
C13_Witness ==
    /\ pc = "priced" /\ context.product.quality_grade = "B"
    /\ ~context.product.export_grade
    /\ (context.product.base_market_price * StatedMultiplier) \div 100
          < context.product.base_market_price
    /\ ret.fair = context.product.base_market_price + 1

-----------------------------------------------------------------------------
(* The price extractor on formatted prices *)

MaxSmall  == 40
MaxBeyond == 9

\* f"{n:,}" on the numeral of n: a comma before every group of three digits
RECURSIVE Grouped(_)
Grouped(ds) ==
    IF Len(ds) <= 3 THEN ds
    ELSE Grouped(SubSeq(ds, 1, Len(ds) - 3)) \o <<",">>
         \o SubSeq(ds, Len(ds) - 2, Len(ds))

\* the currency symbol followed by n written with thousands separators
FormattedPrice(ds) == <<"INR">> \o Grouped(ds)

RECURSIVE Plus(_, _)
Plus(ds, k) == IF k = 0 THEN ds ELSE Plus(Increment(ds), k - 1)

\* 2^53 - 4
NearTwoTo53 == <<"9", "0", "0", "7", "1", "9", "9", "2", "5", "4", "7", "4", "0",
                 "9", "8", "8">>

\* the positive integers extracted from: the small ones, those around one
\* thousand and one million, and those around 2^53
ExtractNumerals ==
    {Digits(n) : n \in 1..MaxSmall}
    \cup {Digits(980 + n) : n \in 1..MaxSmall}
    \cup {Digits(999980 + n) : n \in 1..MaxSmall}
    \cup {Plus(NearTwoTo53, k) : k \in 0..MaxBeyond}

\* texts without a digit
NoDigitTexts ==
    { <<>>, <<"INR">>, <<"n", "o", " ", "w", "a", "y">>, <<",">>,
      <<"INR", ",", ".">> }

ExtractInputs ==
    {[numeral |-> ds, text |-> FormattedPrice(ds)] : ds \in ExtractNumerals}
    \cup {[numeral |-> <<>>, text |-> t] : t \in NoDigitTexts}

ExtractInit ==
    /\ prog \in {"buyer", "seller"}
    /\ context = IF prog = "buyer" THEN BuyerContext0 ELSE SellerContext0
    /\ pc = "extract"
    /\ call \in ExtractInputs
    /\ user_input = call.text
    /\ ret = NoRet
    /\ invocations = 0
    /\ answers = 0
    /\ final_price = NoPrice

\* one call of extract_price (the two agents' methods compute the same)
ExtractPrice ==
    /\ pc = "extract"
    /\ ret' = [price |-> extract_price_numeral(user_input)]
    /\ pc' = "extracted"
    /\ UNCHANGED <<prog, context, user_input, call, invocations, answers, final_price>>

ExtractNext == ExtractPrice

ExtractSpec == ExtractInit /\ [][ExtractNext]_vars

\* C15: extract_price round-trips formatted prices: applied to the currency
\* symbol followed by a positive integer n written with thousands separators it
\* returns n, and applied to a text without a digit it returns 0.
C15_RoundTrip ==
    pc = "extracted"
        => ret.price = IF call.numeral # <<>> THEN call.numeral ELSE <<"0">>

\* C15, the part that holds: the round trip for the integers a double holds
\* exactly, which are every n below 2^53 and every even n of [2^53, 2^54)
C15_RoundTripBelowTwoTo53 ==
    (pc = "extracted" /\ call.numeral # <<>>
     /\ (~NumeralGE(call.numeral, TwoTo53) \/ ~IsOdd(call.numeral)))
        => ret.price = call.numeral

\* the formatted price 2^53 + 1 extracted as 2^53
C15_Witness ==
    /\ pc = "extracted" /\ call.numeral = Increment(TwoTo53)
    /\ user_input = FormattedPrice(call.numeral)
    /\ ret.price = TwoTo53

-----------------------------------------------------------------------------
(* Further properties of whole sessions, checked under Spec *)

\* the line the counterpart typed in round k, as recorded in the messages
CounterpartLine(k) ==
    context.messages[(IF prog = "seller" THEN 1 ELSE 0) + 2 * k - 1].message

\* the price a controller takes from a line without a number
DefaultPrice == IF prog = "buyer" THEN context.product.base_market_price ELSE 0

\* C14: when the counterpart's line holds no number the buyer-side controller
\* passes the base market price to the decision engine and the seller-side
\* controller passes 0, and that value is what the counterpart-offer history
\* records for the round.
C14_DefaultOnNoNumber ==
    /\ call # NoCall
         => /\ Len(CounterpartOffers) > 0
            /\ call.price = CounterpartOffers[Len(CounterpartOffers)]
            /\ (pc = "respond" /\ FirstDigit(user_input) = 0)
                 => call.price = DefaultPrice
    /\ \A k \in 1..Len(CounterpartOffers) :
         FirstDigit(CounterpartLine(k)) = 0 => CounterpartOffers[k] = DefaultPrice

\* a buyer-side session about to answer a second line without a number, both
\* recorded as the base market price of 500
C14_Witness ==
    /\ prog = "buyer" /\ pc = "respond" /\ context.current_round = 2
    /\ user_input = <<"n", "o", " ", "w", "a", "y">>
    /\ call.price = 500 /\ context.seller_offers = <<500, 500>>

\* C16: the seller always sells above market price: in every seller-side
\* session every turn that returns Accepted has a deal price strictly greater
\* than the product's base market price.
C16_SellsAboveMarket ==
    (prog = "seller" /\ ret # NoRet /\ ret.status = ACCEPTED)
        => ret.price > context.product.base_market_price

\* C16, the part that holds: a seller-side deal made before round 10 is
\* strictly above market price
C16_AboveMarketBeforeRound10 ==
    (prog = "seller" /\ ret # NoRet /\ ret.status = ACCEPTED
     /\ context.current_round < MAX_ROUNDS)
        => ret.price > context.product.base_market_price

\* a seller-side session of ten offers of 500 that ends with a deal at 500,
\* below the market price of 600
C16_Witness ==
    /\ prog = "seller" /\ pc = "deal" /\ context.current_round = MAX_ROUNDS
    /\ context.buyer_offers = [k \in 1..MAX_ROUNDS |-> 500]
    /\ ret.status = ACCEPTED /\ final_price = 500
    /\ final_price < context.product.base_market_price

\* C17: the buyer never goes above its budget: in every buyer-side session
\* every price the buyer returns, a counter with status Ongoing or a deal with
\* status Accepted, is at most your_budget.
C17_WithinBudget ==
    (prog = "buyer" /\ ret # NoRet) => ret.price <= context.your_budget

\* C17, the part that holds: every price the buyer returns before round 10
\* is at most your_budget
C17_WithinBudgetBeforeRound10 ==
    (prog = "buyer" /\ ret # NoRet /\ context.current_round < MAX_ROUNDS)
        => ret.price <= context.your_budget

\* a buyer-side session of ten offers of 480 that ends with a deal at 480,
\* above the budget of 450
C17_Witness ==
    /\ prog = "buyer" /\ pc = "deal" /\ context.current_round = MAX_ROUNDS
    /\ context.seller_offers = [k \in 1..MAX_ROUNDS |-> 480]
    /\ ret.status = ACCEPTED /\ ret.price = 480
    /\ ret.price > context.your_budget

\* a is an initial part of b
IsPrefix(a, b) == Len(a) <= Len(b) /\ SubSeq(b, 1, Len(a)) = a

\* the party's limit: the budget of the buyer, the minimum price of the seller
Limit == IF prog = "buyer" THEN context.your_budget
         ELSE context.seller_minimum_price

\* C18: in every step of either session the product and the party's limit are
\* unchanged, each offer sequence and the message sequence extends its previous
\* value, and the round counter does not decrease; the step that calls the
\* agent changes the context only by the controller's append of the returned
\* price and message, the call itself changing nothing.
C18_AppendOnly ==
    [][ /\ context'.product = context.product
        /\ Limit' = Limit
        /\ IsPrefix(CounterpartOffers, CounterpartOffers')
        /\ IsPrefix(OwnOffers, OwnOffers')
        /\ IsPrefix(context.messages, context'.messages)
        /\ context'.current_round >= context.current_round
        /\ pc = "respond"
             => /\ context'.current_round = context.current_round
                /\ CounterpartOffers' = CounterpartOffers
                /\ OwnOffers' = Append(OwnOffers, ret'.price)
                /\ context'.messages
                     = Append(context.messages, Message(prog, ret'.message)) ]_vars

\* a seller-side session after three rounds: the opening offer of 690 and the
\* first line of the buyer are still the first entries, product and limit as
\* at the start
C18_Witness ==
    /\ prog = "seller" /\ pc = "input" /\ context.current_round = 3
    /\ context.product = SellerProduct /\ context.seller_minimum_price = 460
    /\ context.seller_offers[1] = 690 /\ Len(context.seller_offers) = 4
    /\ context.buyer_offers = <<500, 0, 500>>
    /\ context.messages[2].message = <<"5", "0", "0">>
    /\ Len(context.messages) = 7

\* C20: whenever either agent returns Accepted, on any round, the returned
\* price is the counterpart's price of that turn; a session halts with a deal
\* exactly when a turn returned Accepted, its last own offer then equals its
\* last counterpart offer, and no round is played after it.
C20_DealAtCounterpartPrice ==
    /\ [](ret # NoRet
            => /\ ret.status = ACCEPTED => ret.price = call.price
               /\ ret.status = ACCEPTED <=> pc = "deal")
    /\ [](pc = "deal"
            => /\ ret # NoRet
               /\ OwnOffers[Len(OwnOffers)]
                    = CounterpartOffers[Len(CounterpartOffers)]
               /\ final_price = CounterpartOffers[Len(CounterpartOffers)]
               /\ context.current_round = invocations)
    /\ [][pc # "deal"]_vars

\* a buyer-side session closed in its third round at the seller's price of
\* 400, after two rounds without a deal
C20_Witness ==
    /\ prog = "buyer" /\ pc = "deal" /\ context.current_round = 3
    /\ context.seller_offers[3] = 400 /\ context.your_offers[3] = 400
    /\ context.your_offers[2] # context.seller_offers[2]
    /\ final_price = 400

=============================================================================
